---- MODULE Spec2Model ----
(***************************************************************************)
(* The transfer pipeline of convert.py: load_checkpoint, the extraction of *)
(* the archive, import_emails_to_outlook under its retry decorator with    *)
(* the PST backup, the batch loop of batch_process_emails with its thread  *)
(* pool, process_email_with_retry and process_email in each worker,        *)
(* save_checkpoint, the signal handler and the summary report.  The        *)
(* Outlook sink is the environment: each call of process_email gets one of *)
(* the sink's answers, chosen freely.                                      *)
(***************************************************************************)
EXTENDS Naturals, Sequences, FiniteSets

VARIABLES
    mbox,              \* the entries of the MBOX archive, in order
    emails,            \* list(extract_emails_from_mbox_stream(...)): the raw records
    args_batch_size,   \* args.batch_size (--batch-size)
    args_workers,      \* args.workers (--workers)
    pc,                \* position of the main thread
    i,                 \* loop variable of batch_process_emails (0-based offset)
    sig,               \* TRUE once signal_handler has been entered
    processed_emails,  \* the global set of fingerprints
    loaded,            \* what load_checkpoint returned in this run
    file,              \* processed_emails.json on disk
    batches,           \* the slices the batch loop has submitted in this pass, as positions
    task,              \* position of each record's process_email_with_retry call
    attempt,           \* local variable attempt of each call
    results,           \* the sink's answers to each record's process_email calls, this run
    report,            \* what generate_summary_report printed, this run
    import_attempt,    \* the call of import_emails_to_outlook the retry decorator is at
    pst,               \* the PST file: absent, left by an earlier run, or created by this run
    backup,            \* what this run copied to '<pst>.backup', if it did
    prev               \* what earlier runs left behind (how they ended, what the sink took)

vars == <<mbox, emails, args_batch_size, args_workers, pc, i, sig, processed_emails,
          loaded, file, batches, task, attempt, results, report, import_attempt, pst,
          backup, prev>>

-----------------------------------------------------------------------------
(* Bounds of the model *)

\* longest source
MaxEmails == 3
\* number of distinct raw record contents
NumRaw == 2
\* largest --workers
MaxWorkers == 2
\* largest --batch-size
MaxBatchArg == 2
\* the default of batch_size in batch_process_emails; 500 in the source, scaled
\* to the size of the sources above so that a run has more than one batch
DefaultBatchSize == 2

-----------------------------------------------------------------------------
(* Program constants and pure functions *)

\* process_email_with_retry(..., retries=3)
retries == 3

\* @retry(..., stop_max_attempt_number=5) of import_emails_to_outlook
stop_max_attempt_number == 5

RawEmails == 1..NumRaw

\* an entry of the archive whose reading (message.as_string()) raises
Malformed == 0

\* hash_email: SHA-256 of the raw text, a deterministic function that is
\* injective on the raw contents of the model
hash_email(raw_email) == (raw_email * 5 + 3) % 17

Fingerprints == {hash_email(r) : r \in RawEmails}

\* how one process_email call fares: Save and Move succeed, or an exception
\* is raised inside its try block, by the sink (transient or permanent) or
\* by the decoding of the message, a permanent failure like the sink's
SinkResults == {"Success", "TransientError", "PermanentError"}

\* process_email: every exception raised inside it is caught, logged and
\* not raised again, so the call returns normally whatever the sink answered
process_email(res) == "returned"

\* batch_process_emails is called without batch_size, so the default is used
batch_size == DefaultBatchSize

\* the checkpoint file: absent, a complete JSON list, or opened for writing
\* and not completely written (empty or a proper prefix of a JSON list)
NoFile == [st |-> "absent", data |-> {}]
TornFile == [st |-> "torn", data |-> {}]
CompleteFile(s) == [st |-> "ok", data |-> s]

\* a load_checkpoint that starts every run from an empty set
load_checkpoint_empty(f) == {}

\* load_checkpoint: the set in the file, or the empty set without a file
load_checkpoint(f) == IF f.st = "ok" THEN f.data ELSE {}

\* json.load raises on a file that holds no complete JSON value
load_raises(f) == f.st = "torn"

\* generate_summary_report(len(emails), len(processed_emails), start_time)
generate_summary_report(total_emails, failed_emails) ==
    [printed |-> TRUE, total |-> total_emails, failed |-> failed_emails]

NoReport == [printed |-> FALSE, total |-> 0, failed |-> 0]

\* '<pst>.backup' has not been written by this run
NoBackup == [made |-> FALSE, content |-> 0]

\* shutil.copy(pst_file, pst_file + ".backup"): the backup holds what the PST holds
Copy(content) == [made |-> TRUE, content |-> content]

-----------------------------------------------------------------------------
(* Helpers on the state *)

Idx == 1..Len(emails)

Terminal == {"skipped", "committed", "failed"}
Running == {"check", "call", "add"}

\* a slice that runs one record into the next one
Batch_overlap == {k \in Idx : i < k /\ k <= i + batch_size + 1}

\* batch = emails[i:i + batch_size]
Batch == {k \in Idx : i < k /\ k <= i + batch_size}

\* the positions of the slice, in order
BatchSeq == [n \in 1..Cardinality(Batch) |-> i + n]

Min(a, b) == IF a < b THEN a ELSE b

\* fingerprints the sink committed successfully in this run
okThisRun == {hash_email(emails[k]) : k \in {j \in Idx :
                 \E n \in 1..Len(results[j]) : results[j][n] = "Success"}}

\* the content of the PST file, as the number of mails this run has moved
\* into it on top of what it held when the run started
PstContent ==
    Cardinality({c \in Idx \X (1..retries) :
                   c[2] <= Len(results[c[1]]) /\ results[c[1]][c[2]] = "Success"})

NoPrev == [end |-> "none", file |-> NoFile, committed |-> {}, clean |-> FALSE]

\* what a run leaves behind when it ends (how: "done", "crash", "exited",
\* "load_error", "source_error" or "import_error"): the checkpoint file, the
\* fingerprints the sink has committed, and whether the run committed its whole source and saved that (then the
\* file holds the Ledger the run ended with)
Leave(how) ==
    [end |-> how,
     file |-> file,
     committed |-> prev.committed \cup okThisRun,
     clean |-> /\ how = "done"
               /\ file.st = "ok"
               /\ file.data = processed_emails
               /\ \A k \in Idx : /\ task[k] \in {"committed", "skipped"}
                                 /\ \A n \in 1..Len(results[k]) : results[k][n] = "Success"
                                 /\ hash_email(emails[k]) \in processed_emails]

SeqsUpTo(S, n) == UNION {[1..m -> S] : m \in 0..n}

-----------------------------------------------------------------------------
(* Initial state: a source and a configuration, at the start of the first   *)
(* run, which finds no checkpoint file; later runs find what was left       *)

\* nothing but hash_email looks into a record and hash_email is injective, so
\* a source is taken up to the renaming of its contents: the n-th new content
\* of a source is n
FirstUse(s) ==
    \A n \in 1..Len(s) : s[n] = 1 \/ \E m \in 1..(n - 1) : s[m] = s[n] - 1

Sources == {s \in SeqsUpTo(RawEmails, MaxEmails) : FirstUse(s)}

\* the archives: a source, with malformed entries anywhere between its records
WellFormed(a) == SelectSeq(a, LAMBDA e : e # Malformed)

Archives == {a \in SeqsUpTo(RawEmails \cup {Malformed}, MaxEmails) : FirstUse(WellFormed(a))}

\* extract_emails_from_mbox_stream under list(): the generator yields the
\* entries in order; an exception while reading one is logged and raised
\* again, so list() raises and no list is returned
extract_raises(a) == \E n \in 1..Len(a) : a[n] = Malformed

extract_emails_from_mbox_stream(a) == a

Startup ==
    /\ mbox \in Archives
    /\ emails = <<>>
    /\ args_batch_size \in 1..MaxBatchArg
    /\ args_workers \in 1..MaxWorkers
    /\ file = NoFile
    /\ pc = "load"
    /\ i = 0
    /\ sig = FALSE
    /\ processed_emails = {}
    /\ loaded = {}
    /\ batches = <<>>
    /\ task = [k \in Idx |-> "none"]
    /\ attempt = [k \in Idx |-> 0]
    /\ results = [k \in Idx |-> <<>>]
    /\ report = NoReport
    /\ import_attempt = 1
    /\ backup = NoBackup
    /\ prev = NoPrev

\* the first run in a directory that holds neither a checkpoint nor a PST file
Init ==
    /\ Startup
    /\ pst = "absent"

\* a run that may find a PST file at the destination
InitIO ==
    /\ Startup
    /\ pst \in {"absent", "old"}

config == <<mbox, emails, args_batch_size, args_workers>>

\* the values the state takes
TypeOK ==
    /\ mbox \in Archives
    /\ emails \in Sources
    /\ args_batch_size \in 1..MaxBatchArg
    /\ args_workers \in 1..MaxWorkers
    /\ pc \in {"load", "load_error", "extract", "source_error", "import",
               "import_error", "loop", "wait", "save", "save_write", "report",
               "done", "exit_wait", "exited"}
    /\ i \in 0..(MaxEmails + batch_size)
    /\ sig \in BOOLEAN
    /\ processed_emails \subseteq Fingerprints
    /\ loaded \subseteq Fingerprints
    /\ file \in [st : {"absent", "ok", "torn"}, data : SUBSET Fingerprints]
    /\ Len(batches) <= MaxEmails
    /\ \A b \in 1..Len(batches) : \A n \in 1..Len(batches[b]) : batches[b][n] \in Idx
    /\ task \in [Idx -> {"none", "queued"} \cup Running \cup Terminal]
    /\ attempt \in [Idx -> 0..retries]
    /\ \A k \in Idx : results[k] \in SeqsUpTo(SinkResults, retries)
    /\ report \in [printed : BOOLEAN, total : 0..MaxEmails, failed : 0..MaxEmails]
    /\ import_attempt \in 1..stop_max_attempt_number
    /\ pst \in {"absent", "old", "new"}
    /\ backup \in [made : BOOLEAN, content : 0..MaxEmails]
    /\ prev \in [end : {"none", "done", "crash", "exited", "load_error", "source_error",
                        "import_error"},
                 file : [st : {"absent", "ok", "torn"}, data : SUBSET Fingerprints],
                 committed : SUBSET Fingerprints, clean : BOOLEAN]

-----------------------------------------------------------------------------
(* Main thread *)

\* processed_emails = initialize_logging_and_checkpoint(...); a checkpoint
\* file that json.load cannot parse ends the run with the exception
Load ==
    /\ pc = "load"
    /\ IF load_raises(file)
         THEN /\ pc' = "load_error"
              /\ UNCHANGED <<processed_emails, loaded>>
         ELSE /\ processed_emails' = load_checkpoint(file)
              /\ loaded' = load_checkpoint(file)
              /\ pc' = "extract"
    /\ UNCHANGED <<config, import_attempt, pst, backup, batches, i, sig, file, task, attempt, results, report, prev>>

\* emails = list(extract_emails_from_mbox_stream(args.mbox_file)); an
\* exception of the generator is not caught and ends the run
Extract ==
    /\ pc = "extract"
    /\ IF extract_raises(mbox)
         THEN /\ pc' = "source_error"
              /\ UNCHANGED <<emails, task, attempt, results>>
         ELSE /\ emails' = extract_emails_from_mbox_stream(mbox)
              /\ task' = [k \in 1..Len(mbox) |-> "none"]
              /\ attempt' = [k \in 1..Len(mbox) |-> 0]
              /\ results' = [k \in 1..Len(mbox) |-> <<>>]
              /\ pc' = "import"
    /\ UNCHANGED <<mbox, args_batch_size, args_workers, i, sig, processed_emails,
                   loaded, file, batches, report, import_attempt, pst, backup, prev>>

\* import_emails_to_outlook up to its call of batch_process_emails:
\* backup_existing_pst copies an existing PST file to '<pst>.backup',
\* AddStoreEx creates the PST file if there is none, and the batch loop starts
\* from the first record with new futures
ImportBegin ==
    /\ pc = "import"
    /\ backup' = IF pst # "absent" THEN Copy(PstContent) ELSE backup
    /\ pst' = IF pst = "absent" THEN "new" ELSE pst
    /\ i' = 0
    /\ batches' = <<>>
    /\ task' = [k \in Idx |-> "none"]
    /\ attempt' = [k \in Idx |-> 0]
    /\ pc' = "loop"
    /\ UNCHANGED <<config, import_attempt, sig, processed_emails, loaded, file,
                   results, report, prev>>

\* a batch loop that waits for a batch it never handed to the executor
BatchSubmit_lost ==
    /\ pc = "loop"
    /\ batches' = IF i < Len(emails) THEN Append(batches, BatchSeq) ELSE batches
    /\ pc' = IF i < Len(emails) THEN "wait" ELSE "report"
    /\ UNCHANGED <<config, import_attempt, pst, backup, i, sig, processed_emails, loaded,
                   file, task, attempt, results, report, prev>>

\* for i in range(0, len(emails), batch_size): submit the whole batch to the
\* executor; after the last batch the summary is next
BatchSubmit ==
    /\ pc = "loop"
    /\ IF i < Len(emails)
         THEN /\ task' = [k \in Idx |-> IF k \in Batch THEN "queued" ELSE task[k]]
              /\ batches' = Append(batches, BatchSeq)
              /\ pc' = "wait"
         ELSE /\ pc' = "report"
              /\ UNCHANGED <<task, batches>>
    /\ UNCHANGED <<config, import_attempt, pst, backup, i, sig, processed_emails, loaded, file, attempt,
                   results, report, prev>>

\* a batch loop that goes on to save_checkpoint without waiting for the futures
BatchWait_nowait ==
    /\ pc = "wait"
    /\ pc' = "save"
    /\ UNCHANGED <<config, import_attempt, pst, backup, batches, i, sig, processed_emails, loaded,
                   file, task, attempt, results, report, prev>>

\* concurrent.futures.wait(futures) and the executor's exit: every future of
\* the batch is done
BatchWait ==
    /\ pc = "wait"
    /\ \A k \in Batch : task[k] \in Terminal
    /\ pc' = "save"
    /\ UNCHANGED <<config, import_attempt, pst, backup, batches, i, sig, processed_emails, loaded, file, task, attempt,
                   results, report, prev>>

\* save_checkpoint, first step: open('processed_emails.json', 'w') truncates
SaveOpen ==
    /\ pc = "save"
    /\ file' = TornFile
    /\ pc' = "save_write"
    /\ UNCHANGED <<config, import_attempt, pst, backup, batches, i, sig, processed_emails, loaded, task, attempt,
                   results, report, prev>>

\* save_checkpoint, second step: json.dump(list(processed_emails), f) and close;
\* then the next batch, or sys.exit(0) when called from signal_handler
SaveWrite ==
    /\ pc = "save_write"
    /\ file' = CompleteFile(processed_emails)
    /\ IF sig
         THEN /\ pc' = "exit_wait"
              /\ UNCHANGED i
         ELSE /\ pc' = "loop"
              /\ i' = i + batch_size
    /\ UNCHANGED <<config, import_attempt, pst, backup, batches, sig, processed_emails, loaded, task, attempt,
                   results, report, prev>>

\* save_checkpoint after a batch raises an I/O error, at open or at json.dump:
\* the exception leaves batch_process_emails, import_emails_to_outlook logs it
\* and raises it again, and the retry decorator calls import_emails_to_outlook
\* again unless this was its last attempt, after which the exception ends the run
SaveError ==
    /\ pc \in {"save", "save_write"}
    /\ ~sig
    /\ IF import_attempt < stop_max_attempt_number
         THEN /\ import_attempt' = import_attempt + 1
              /\ pc' = "import"
         ELSE /\ pc' = "import_error"
              /\ UNCHANGED import_attempt
    /\ UNCHANGED <<config, pst, backup, batches, i, sig, processed_emails, loaded, file, task,
                   attempt, results, report, prev>>

\* generate_summary_report(len(emails), len(processed_emails), start_time)
Report ==
    /\ pc = "report"
    /\ report' = generate_summary_report(Len(emails), Cardinality(processed_emails))
    /\ pc' = "done"
    /\ UNCHANGED <<config, import_attempt, pst, backup, batches, i, sig, processed_emails, loaded, file, task, attempt,
                   results, prev>>

\* SIGINT or SIGTERM while the main thread is in the batch loop: signal_handler
\* runs in the main thread and calls save_checkpoint at once
Signal ==
    /\ pc \in {"loop", "wait"}
    /\ ~sig
    /\ sig' = TRUE
    /\ pc' = "save"
    /\ UNCHANGED <<config, import_attempt, pst, backup, batches, i, processed_emails, loaded, file, task, attempt,
                   results, report, prev>>

\* sys.exit(0): SystemExit leaves the with block, whose exit is
\* executor.shutdown(wait=True): the submitted futures all run to their end,
\* then the process exits, without a summary
Exit ==
    /\ pc = "exit_wait"
    /\ \A k \in Batch : task[k] \notin Running \cup {"queued"}
    /\ pc' = "exited"
    /\ UNCHANGED <<config, import_attempt, pst, backup, batches, i, sig, processed_emails, loaded, file, task, attempt,
                   results, report, prev>>

-----------------------------------------------------------------------------
(* Worker threads: process_email_with_retry(email, inbox_folder, output_folder) *)

\* a free thread of the pool (max_workers=args.workers) takes the oldest
\* queued work item
Start(k) ==
    /\ task[k] = "queued"
    /\ \A j \in Idx : j < k => task[j] # "queued"
    /\ Cardinality({j \in Idx : task[j] \in Running}) < args_workers
    /\ task' = [task EXCEPT ![k] = "check"]
    /\ UNCHANGED <<config, import_attempt, pst, backup, batches, pc, i, sig, processed_emails, loaded, file, attempt,
                   results, report, prev>>

\* a call that does not look into processed_emails
Check_nofilter(k) ==
    /\ task[k] = "check"
    /\ attempt' = [attempt EXCEPT ![k] = 0]
    /\ task' = [task EXCEPT ![k] = "call"]
    /\ UNCHANGED <<config, import_attempt, pst, backup, batches, pc, i, sig, processed_emails,
                   loaded, file, results, report, prev>>

\* attempt = 0; email_id = hash_email(raw_email);
\* if email_id in processed_emails: return
Check(k) ==
    /\ task[k] = "check"
    /\ attempt' = [attempt EXCEPT ![k] = 0]
    /\ IF hash_email(emails[k]) \in processed_emails
         THEN task' = [task EXCEPT ![k] = "skipped"]
         ELSE task' = [task EXCEPT ![k] = "call"]
    /\ UNCHANGED <<config, import_attempt, pst, backup, batches, pc, i, sig, processed_emails, loaded, file,
                   results, report, prev>>

\* while attempt < retries: try: process_email(...) except Exception:
\* attempt += 1; sleep; the sink answers res to this call
Call(k) ==
    /\ task[k] = "call"
    /\ \E res \in SinkResults :
         /\ results' = [results EXCEPT ![k] = Append(@, res)]
         /\ IF process_email(res) = "returned"
              THEN /\ task' = [task EXCEPT ![k] = "add"]
                   /\ UNCHANGED attempt
              ELSE /\ attempt' = [attempt EXCEPT ![k] = @ + 1]
                   /\ task' = [task EXCEPT ![k] =
                                 IF attempt[k] + 1 < retries THEN "call" ELSE "failed"]
    /\ UNCHANGED <<config, import_attempt, pst, backup, batches, pc, i, sig, processed_emails, loaded, file, report, prev>>

\* a call that puts its fingerprint in place of the set
Add_replace(k) ==
    /\ task[k] = "add"
    /\ processed_emails' = {hash_email(emails[k])}
    /\ task' = [task EXCEPT ![k] = "committed"]
    /\ UNCHANGED <<config, import_attempt, pst, backup, batches, pc, i, sig, loaded, file,
                   attempt, results, report, prev>>

\* processed_emails.add(email_id); return
Add(k) ==
    /\ task[k] = "add"
    /\ processed_emails' = processed_emails \cup {hash_email(emails[k])}
    /\ task' = [task EXCEPT ![k] = "committed"]
    /\ UNCHANGED <<config, import_attempt, pst, backup, batches, pc, i, sig, loaded, file, attempt, results, report, prev>>

-----------------------------------------------------------------------------
(* The process as a whole *)

\* a new process over the same source and the checkpoint file as it is on disk
Fresh(how) ==
    /\ prev' = Leave(how)
    /\ pc' = "load"
    /\ i' = 0
    /\ sig' = FALSE
    /\ processed_emails' = {}
    /\ loaded' = {}
    /\ emails' = <<>>
    /\ batches' = <<>>
    /\ task' = <<>>
    /\ attempt' = <<>>
    /\ results' = <<>>
    /\ report' = NoReport
    /\ import_attempt' = 1
    /\ pst' = IF pst = "absent" THEN "absent" ELSE "old"
    /\ backup' = NoBackup
    /\ UNCHANGED <<mbox, args_batch_size, args_workers, file>>

\* the process is killed at any point of a run and started again
CrashRestart ==
    /\ pc \notin {"load", "done", "exited", "load_error", "source_error", "import_error"}
    /\ Fresh("crash")

\* the process has ended by itself and is started again
Rerun ==
    /\ pc \in {"done", "exited", "load_error", "source_error", "import_error"}
    /\ Fresh(pc)

Next ==
    \/ Load
    \/ Extract
    \/ ImportBegin
    \/ BatchSubmit
    \/ BatchWait
    \/ SaveOpen
    \/ SaveWrite
    \/ Report
    \/ Signal
    \/ Exit
    \/ \E k \in Idx : Start(k)
    \/ \E k \in Idx : Check(k)
    \/ \E k \in Idx : Call(k)
    \/ \E k \in Idx : Add(k)
    \/ CrashRestart
    \/ Rerun

\* runs with a disk that takes every write, under signals, kills and restarts
Spec == Init /\ [][Next]_vars

\* one run with a disk on which a save_checkpoint after a batch may fail
NextIO ==
    \/ Load
    \/ Extract
    \/ ImportBegin
    \/ BatchSubmit
    \/ BatchWait
    \/ SaveOpen
    \/ SaveWrite
    \/ SaveError
    \/ Report
    \/ \E k \in Idx : Start(k)
    \/ \E k \in Idx : Check(k)
    \/ \E k \in Idx : Call(k)
    \/ \E k \in Idx : Add(k)

SpecIO == InitIO /\ [][NextIO]_vars

\* one run that nothing interrupts: no signal, no kill, no failing write. The
\* main thread and every thread of the pool are scheduled again and again, and
\* every call of the sink returns or raises
MainThread ==
    \/ Load
    \/ Extract
    \/ ImportBegin
    \/ BatchSubmit
    \/ BatchWait
    \/ SaveOpen
    \/ SaveWrite
    \/ Report

Worker(k) ==
    /\ k \in Idx
    /\ \/ Start(k)
       \/ Check(k)
       \/ Call(k)
       \/ Add(k)

NextRun ==
    \/ MainThread
    \/ \E k \in 1..MaxEmails : Worker(k)

LiveSpec ==
    /\ Init
    /\ [][NextRun]_vars
    /\ WF_vars(MainThread)
    /\ \A k \in 1..MaxEmails : WF_vars(Worker(k))

-----------------------------------------------------------------------------
(* Properties *)

\* the records of the run whose process_email was called, and how the sink answered
Attempted(k) == results[k] # <<>>
Succeeded(k) == \E n \in 1..Len(results[k]) : results[k][n] = "Success"
AllAnswers(k, r) == \A n \in 1..Len(results[k]) : results[k][n] = r
Ended(k) == task[k] \in Terminal

\* C1: a fingerprint is in processed_emails only if load_checkpoint returned it
\* at startup or the sink answered Success to a commit of a record with that
\* fingerprint in this run.
LedgerOnlyCommitted ==
    \A f \in processed_emails : f \in loaded \/ f \in okThisRun

\* C2: a record that was not in the Ledger and whose sink calls all answered
\* TransientError has, once its call has ended, been attempted exactly
\* `retries` times and is Failed, outside the Ledger.
RetryBound ==
    \A k \in Idx :
        (Ended(k) /\ Attempted(k) /\ AllAnswers(k, "TransientError"))
            => /\ Len(results[k]) = retries
               /\ task[k] = "failed"

\* the run was started after an earlier run over the same source was killed
AfterCrash == prev.end = "crash"

\* C3 as stated: after a kill and a restart, no record whose commit had
\* succeeded before the kill is committed to the sink again.
CrashSkipsEveryCommitted ==
    AfterCrash =>
        \A k \in Idx : hash_email(emails[k]) \in prev.committed => ~Attempted(k)

\* C3, amended: after a kill and a restart the Ledger is the content of the
\* checkpoint file as the kill left it, every record whose fingerprint is in
\* it is skipped without a sink call, and only records outside it are
\* attempted (a file cut short by the kill stops the restart at load).
CrashResumesFromCheckpoint ==
    AfterCrash =>
        /\ pc \notin {"load", "load_error"} => loaded = prev.file.data
        /\ pc = "load_error" => prev.file.st = "torn"
        /\ \A k \in Idx :
              /\ Attempted(k) => hash_email(emails[k]) \notin prev.file.data
              /\ hash_email(emails[k]) \in prev.file.data
                    => task[k] \in {"none", "queued", "check", "skipped"}

\* C3 witness: a restarted run that skipped a record of the checkpoint and
\* called the sink again for a record committed before the kill.
CrashResumeWitness ==
    /\ AfterCrash
    /\ \E k \in Idx : task[k] = "skipped" /\ hash_email(emails[k]) \in loaded
    /\ \E j \in Idx : Attempted(j) /\ hash_email(emails[j]) \in prev.committed

\* C4: with a sink that always succeeds, two records of the same fingerprint
\* are never both committed in a run: the sink is called for one of them and
\* the other is skipped.
InRunDedup ==
    (\A k \in Idx : AllAnswers(k, "Success")) =>
        \A k, j \in Idx :
            (k < j /\ emails[k] = emails[j]) =>
                /\ ~(Attempted(k) /\ Attempted(j))
                /\ (Ended(k) /\ Ended(j)) => "skipped" \in {task[k], task[j]}

\* C5: a run over a source that the run before committed completely, with
\* that run's checkpoint, calls the sink for no record, leaves the Ledger and
\* the checkpoint as they were and reports skipped = total and failed = 0.
SecondRunIdempotent ==
    (prev.clean /\ pc = "done") =>
        /\ \A k \in Idx : ~Attempted(k) /\ task[k] = "skipped"
        /\ processed_emails = prev.file.data
        /\ file = prev.file
        /\ report.failed = 0

\* C6: the failed count of the summary is the number of records that ended
\* Failed; with a sink that always succeeded it is 0.
SummaryCountsFailed ==
    report.printed =>
        /\ report.failed = Cardinality({k \in Idx : task[k] = "failed"})
        /\ report.total = Len(emails)

\* C7: of two records of one batch whose calls have ended, one whose commit
\* failed on every attempt and one whose commit succeeded, the first is
\* Failed and the second is Committed.
SameBatch(k, j) == (k - 1) \div batch_size = (j - 1) \div batch_size

BatchIsolation ==
    \A k, j \in Idx :
        (/\ SameBatch(k, j)
         /\ Ended(k) /\ Attempted(k) /\ ~Succeeded(k)
         /\ Ended(j) /\ Succeeded(j))
            => (task[k] = "failed" /\ task[j] = "committed")

\* C8: whenever a run starts, the checkpoint file is a complete snapshot (or
\* absent), also when the run before was killed inside save_checkpoint.
CheckpointNeverTorn ==
    pc = "load" => file.st # "torn"

\* C9: after an interrupt signal the checkpoint is saved only when no worker
\* of the batch is still in flight, and at exit the file holds every
\* fingerprint whose commit returned success.
GracefulShutdown ==
    /\ (sig /\ pc \in {"save", "save_write"}) => \A k \in Batch : task[k] \notin Running
    /\ pc = "exited" => (file.st = "ok" /\ okThisRun \subseteq file.data)

\* C10: each window handed to the workers has args.batch_size records, the
\* last one possibly fewer.
WindowIsConfiguredSize ==
    pc = "wait" => Cardinality(Batch) = Min(args_batch_size, Len(emails) - i)

\* C12: a malformed entry of the archive is skipped and does not end the run:
\* once extraction is over, the run has not stopped on the source and the
\* list of records holds every well-formed entry of the archive, in order
MalformedEntrySkipped ==
    pc \notin {"load", "load_error", "extract"} =>
        /\ pc # "source_error"
        /\ emails = WellFormed(mbox)

\* C11: a save_checkpoint after a batch that fails with an I/O error ends the
\* run: once a save has failed, no batch is submitted to the pool, no record
\* is handed to the sink, no checkpoint is written and the run does not go on
\* to its summary
SaveFailureIsFatal ==
    import_attempt > 1 =>
        /\ pc \notin {"wait", "save", "save_write", "report", "done"}
        /\ \A k \in Idx : task[k] \notin {"queued"} \cup Running

\* C13: the checkpoint is written only between batches: whenever
\* save_checkpoint is running, from the batch loop or from signal_handler, no
\* record of the current batch is queued in the pool or inside its
\* process_email_with_retry call
SaveOnlyBetweenBatches ==
    pc \in {"save", "save_write"} =>
        \A k \in Batch : task[k] \notin {"queued"} \cup Running

\* C14: in a run that no signal interrupts the batches are strictly
\* sequential: nothing beyond the current batch has been submitted, every
\* record of the earlier batches has ended, and while a batch is in the pool
\* the checkpoint of the batch before it is complete on disk and holds what
\* that batch and the ones before it added; the offset i moves only by one
\* batch at a time, at the end of the save that follows the batch
BatchesSequential ==
    /\ [](~sig =>
            /\ \A k \in Idx : /\ task[k] # "none" => k <= i + batch_size
                              /\ k <= i => task[k] \in Terminal
            /\ (pc = "wait" /\ i > 0) =>
                   /\ file.st = "ok"
                   /\ \A k \in Idx : (k <= i /\ task[k] = "committed")
                                        => hash_email(emails[k]) \in file.data)
    /\ [][i' # i =>
            \/ pc' = "load"
            \/ /\ pc = "save_write"
               /\ \A k \in Batch : task[k] \in Terminal
               /\ i' = i + batch_size
               /\ file' = CompleteFile(processed_emails)]_vars

\* a record of the second batch is in a worker, after the first batch's save
SecondBatchDispatched ==
    /\ ~sig
    /\ pc = "wait"
    /\ i > 0
    /\ \E k \in Batch : task[k] \in Running
    /\ \E k \in Idx : k <= i /\ task[k] = "committed"

RECURSIVE Flatten(_)
Flatten(ss) == IF ss = <<>> THEN <<>> ELSE Head(ss) \o Flatten(Tail(ss))

\* C15: the batch loop cuts the N records into ceil(N / batch_size) slices:
\* the slices submitted so far, put end to end, are the first records of the
\* source in order, each once; every slice but the last has batch_size
\* records; when the loop is over the slices cover the whole source and the
\* last one has what is left, N mod batch_size records if that is not 0
BatchPartition ==
    /\ Flatten(batches) = [n \in 1..Len(Flatten(batches)) |-> n]
    /\ \A b \in 1..Len(batches) :
          /\ batches[b] # <<>>
          /\ Len(batches[b]) <= batch_size
          /\ b < Len(batches) => Len(batches[b]) = batch_size
    /\ pc \in {"report", "done"} =>
          /\ Len(Flatten(batches)) = Len(emails)
          /\ Len(batches) = (Len(emails) + batch_size - 1) \div batch_size
          /\ [n \in 1..Len(emails) |-> emails[Flatten(batches)[n]]] = emails
          /\ (Len(emails) % batch_size # 0) =>
                 Len(batches[Len(batches)]) = Len(emails) % batch_size

\* a completed run whose last slice is shorter than the ones before it
ShortLastBatch ==
    /\ pc = "done"
    /\ Len(batches) >= 2
    /\ Len(batches[Len(batches)]) < batch_size
    /\ \A k \in Idx : task[k] \in Terminal

\* the states of a record, as the stages of its process_email_with_retry call
Stage(t) ==
    CASE t \in {"none", "queued", "check"} -> "Pending"
      [] t \in {"call", "add"} -> "Dispatched"
      [] t = "skipped" -> "Skipped"
      [] t = "committed" -> "Committed"
      [] t = "failed" -> "Failed"

\* one step of a record: Pending to Skipped or Dispatched, Dispatched to
\* Committed, or through a failed attempt (attempt grows by one) back to
\* Dispatched or on to Failed; a record that has ended stays as it is
RecordStep(k) ==
    \/ Stage(task'[k]) = Stage(task[k])
    \/ Stage(task[k]) = "Pending" /\ Stage(task'[k]) \in {"Skipped", "Dispatched"}
    \/ Stage(task[k]) = "Dispatched" /\ Stage(task'[k]) = "Committed"
    \/ Stage(task[k]) = "Dispatched" /\ Stage(task'[k]) = "Failed"
          /\ attempt'[k] = attempt[k] + 1

\* C16: in a run that nothing interrupts every record moves only along
\* Pending -> {Skipped | Dispatched}, Dispatched -> {Committed | RetryPending},
\* RetryPending -> {Dispatched | Failed}, a record that has ended never
\* changes again, and once the import has started the run reaches its end
\* with every batch submitted and every record ended, whatever the sink answers
RecordsTerminate ==
    /\ [][\A k \in Idx : RecordStep(k)]_vars
    /\ (pc = "import") ~>
          (/\ pc = "done"
           /\ i >= Len(emails)
           /\ \A k \in Idx : task[k] \in Terminal)

\* a finished run of two batches in which a record was committed and one skipped
RunOfTwoBatchesOver ==
    /\ pc = "done"
    /\ Len(batches) = 2
    /\ \E k \in Idx : task[k] = "committed"
    /\ \E k \in Idx : task[k] = "skipped"

\* the fingerprint of record k is in the Ledger before the batch of k is
\* formed: it was loaded at startup, or a record of an earlier batch has it
InLedgerBeforeBatch(k) ==
    \/ hash_email(emails[k]) \in loaded
    \/ \E j \in Idx : j < k /\ ~SameBatch(k, j) /\ emails[j] = emails[k]

InBatches(k) ==
    \E b \in 1..Len(batches) : \E n \in 1..Len(batches[b]) : batches[b][n] = k

BackupKeepsOriginal ==
    pst = "old" =>
        /\ pc \in {"loop", "wait", "save", "save_write", "report", "done", "import_error"}
              => backup.made
        /\ backup.made => backup.content = 0

\* C19: within a run processed_emails only grows and always contains what
\* load_checkpoint returned; a save_checkpoint that completes leaves in the
\* file exactly the set as it is at that moment, and from the load on a
\* complete file holds a subset of the set
LedgerGrowsOverCheckpoint ==
    /\ [](pc \notin {"load", "load_error"} =>
            /\ loaded \subseteq processed_emails
            /\ file.st = "ok" => file.data \subseteq processed_emails)
    /\ [][pc' # "load" => processed_emails \subseteq processed_emails']_vars
    /\ [][(pc = "save_write" /\ file' # file) =>
             file' = CompleteFile(processed_emails)]_vars

\* after a completed save of this run the set has grown beyond the file
LedgerBeyondCheckpoint ==
    /\ pc = "wait"
    /\ ~sig
    /\ i > 0
    /\ file.st = "ok"
    /\ file.data # {}
    /\ file.data # processed_emails
    /\ loaded # file.data

====
